--------------------------- MODULE Spec2Model ---------------------------
(***************************************************************************)
(* A model of scripts/ripper.mjs: the glob-natives-plugin load hook that   *)
(* synthesizes the ~pluginNatives module, the six concurrent esbuild       *)
(* builds joined by Promise.all, and the post-build patch of               *)
(* dist/renderer.js.                                                       *)
(*                                                                         *)
(* Strings are sequences of one-character strings, so that split, join,    *)
(* slice and indexOf are computed and not assumed.                         *)
(***************************************************************************)
EXTENDS Integers, Sequences, FiniteSets, TLC

VARIABLES
    fs,           \* the source tree: existing roots, readdir listings, native files
    inv,          \* one record per onLoad invocation: position and loop variables
    local,        \* the let-bound accumulators code, natives, i, one cell per scope
    dirName,      \* a plugin directory name handed to the display-name derivation
    displayName,  \* its derived display name, once computed
    build,        \* the settlement state of each of the six esbuild.build promises
    watch,        \* commonOpts.watch
    main,         \* position of the top-level module code
    exitCode,     \* process.exitCode
    exitStatus,   \* the status the process ended with, "running" until then
    file,         \* dist/renderer.js: Absent or its content
    LATEST_HASH,  \* the constant of line 203
    warned        \* whether console.warn("[RIPPER]", err) ran

loadVars == <<fs, inv, local>>
nameVars == <<dirName, displayName>>
buildVars == <<build, watch, main, exitCode, exitStatus, file, LATEST_HASH, warned>>
vars == <<fs, inv, local, dirName, displayName,
          build, watch, main, exitCode, exitStatus, file, LATEST_HASH, warned>>

-----------------------------------------------------------------------------
(* Bounds *)

\* plugin directories over both roots, single-invocation runs
MaxPlugins == 3
\* plugin directories over both roots, concurrent runs
MaxConcPlugins == 2
\* characters of a directory name handed to the display-name derivation
MaxNameLen == 4
\* tokens of dist/renderer.js as the bundler writes it
MaxFileLen == 2

-----------------------------------------------------------------------------
(* JavaScript string and array primitives *)

Min(a, b) == IF a < b THEN a ELSE b
Max(a, b) == IF a > b THEN a ELSE b

\* String.prototype.slice / Array.prototype.slice with both arguments
Slice(s, start, end) ==
    LET len  == Len(s)
        from == IF start < 0 THEN Max(len + start, 0) ELSE Min(start, len)
        to   == IF end < 0 THEN Max(len + end, 0) ELSE Min(end, len)
    IN  SubSeq(s, from + 1, to)

\* slice(start): to the end
SliceFrom(s, start) == Slice(s, start, Len(s))

\* String.prototype.indexOf for a one-token needle: zero-based, -1 when absent
IndexOf(s, needle) ==
    IF \E n \in 1..Len(s) : s[n] = needle
    THEN (CHOOSE n \in 1..Len(s) : s[n] = needle /\ \A m \in 1..(n - 1) : s[m] # needle) - 1
    ELSE -1

RECURSIVE Split(_, _)
\* String.prototype.split(sep) for a one-character separator
Split(s, sep) ==
    LET at == IndexOf(s, sep)
    IN  IF at = -1 THEN <<s>>
        ELSE <<SubSeq(s, 1, at)>> \o Split(SliceFrom(s, at + 1), sep)

RECURSIVE Join(_, _)
\* Array.prototype.join(sep)
Join(parts, sep) ==
    IF Len(parts) = 0 THEN <<>>
    ELSE IF Len(parts) = 1 THEN parts[1]
    ELSE parts[1] \o <<sep>> \o Join(Tail(parts), sep)

\* String.prototype.toUpperCase on one character
toUpperCase(c) ==
    CASE c = "a" -> "A"
      [] c = "b" -> "B"
      [] c = "c" -> "C"
      [] c = "d" -> "D"
      [] c = "x" -> "X"
      [] OTHER   -> c

\* JSON.stringify of a string that needs no escaping
JSONstringify(s) == <<"\"">> \o s \o <<"\"">>

-----------------------------------------------------------------------------
(* The load hook of glob-natives-plugin *)

Invocations == {1, 2}

pluginDirsReversed == <<"userplugins", "plugins">>
pluginDirs == <<"plugins", "userplugins">>

NativeFiles == {"native.ts", "native/index.ts"}

\* path.join("src", dir, ...) as the list of its components below src
join(dir, rest) == <<dir>> \o rest

\* existsAsync of build/common.mjs: whether the path exists in the tree
existsAsync(path) ==
    IF Len(path) = 1 THEN path[1] \in fs.roots
    ELSE path[1] \in fs.roots /\ <<path[1], path[2], path[3]>> \in fs.files

\* fs/promises readdir of an existing directory
readdir(path) == fs.listing[path[1]]

\* lines 74-77
cleanPluginName(p) ==
    LET nameParts == Split(p, ".")
        namePartsWithoutTarget ==
            IF Len(nameParts) = 1 THEN nameParts ELSE Slice(nameParts, 0, -1)
    IN  <<toUpperCase(p[1])>> \o SliceFrom(Join(namePartsWithoutTarget, "."), 1)

\* JSON.parse of a quoted string that needs no unescaping
JSONparse(q) == SubSeq(q, 2, Len(q) - 1)

\* line 85: the object the literal {"K":pN, ...} evaluates to; a repeated key
\* keeps the value written last
ExportObject(natives) ==
    [key \in {JSONparse(natives[n].key) : n \in 1..Len(natives)} |->
        LET last == CHOOSE n \in 1..Len(natives) :
                        /\ JSONparse(natives[n].key) = key
                        /\ \A m \in (n + 1)..Len(natives) : JSONparse(natives[m].key) # key
        IN  natives[last].mod]

ScopeShared(k) == 1
\* code, natives and i are let-bound inside the async callback: one cell per call
Scope(k) == k

IdleInv == [pc |-> "idle", dirIdx |-> 0, plugins |-> <<>>, pIdx |-> 0,
            result |-> [contents |-> <<>>, resolveDir |-> ""],
            interleaved |-> FALSE]
IdleLocal == [code |-> <<>>, natives |-> <<>>, i |-> 0]

\* lines 85-89: the loops are over
Return(r, l) ==
    LET code == Append(l.code, [kind |-> "export", natives |-> l.natives])
    IN  [inv   |-> [r EXCEPT !.pc = "done",
                              !.result = [contents |-> code, resolveDir |-> "./src"]],
         local |-> [l EXCEPT !.code = code]]

\* line 63: the next root, up to its await of existsAsync(dirPath)
NextDir(r, l) ==
    IF r.dirIdx < Len(pluginDirs)
    THEN [inv   |-> [r EXCEPT !.dirIdx = @ + 1, !.pc = "existsDir"],
          local |-> l]
    ELSE Return(r, l)

\* line 67: the next plugin, up to its await of existsAsync(nativePath)
NextPlugin(r, l) ==
    IF r.pIdx < Len(r.plugins)
    THEN [inv   |-> [r EXCEPT !.pIdx = @ + 1, !.pc = "existsNative"],
          local |-> l]
    ELSE NextDir(r, l)

EmitNoIncrement(r, l) ==
    LET dir == pluginDirs[r.dirIdx]
        p   == r.plugins[r.pIdx]
        mod == <<"p", l.i>>
    IN  [l EXCEPT !.code = Append(@, [kind |-> "import", mod |-> mod,
                                      from |-> <<"./", dir, "/", p, "/native">>]),
                  !.natives = Append(@, [key |-> JSONstringify(cleanPluginName(p)),
                                         mod |-> mod])]
\* lines 74-82: a native module was found
Emit(r, l) ==
    LET dir == pluginDirs[r.dirIdx]
        p   == r.plugins[r.pIdx]
        mod == <<"p", l.i>>
    IN  [l EXCEPT !.code = Append(@, [kind |-> "import", mod |-> mod,
                                      from |-> <<"./", dir, "/", p, "/native">>]),
                  !.natives = Append(@, [key |-> JSONstringify(cleanPluginName(p)),
                                         mod |-> mod]),
                  !.i = @ + 1]

\* lines 59-65, up to the first await
OnInvoke(r, l) ==
    [inv   |-> [r EXCEPT !.pc = "existsDir", !.dirIdx = 1],
     local |-> IdleLocal]

OnExistsDirUnchecked(r, l) ==
    [inv |-> [r EXCEPT !.pc = "readdir"], local |-> l]
\* lines 65-66: existsAsync(dirPath) has settled
OnExistsDir(r, l) ==
    IF ~existsAsync(join(pluginDirs[r.dirIdx], <<>>))
    THEN NextDir(r, l)
    ELSE [inv |-> [r EXCEPT !.pc = "readdir"], local |-> l]

\* lines 66-71: readdir(dirPath) has settled; ENOENT rejects the hook's promise
OnReaddir(r, l) ==
    LET dirPath == join(pluginDirs[r.dirIdx], <<>>)
    IN  IF ~existsAsync(dirPath)
        THEN [inv |-> [r EXCEPT !.pc = "rejected"], local |-> l]
        ELSE LET plugins == readdir(dirPath)
             IN  IF Len(plugins) = 0
                 THEN NextDir([r EXCEPT !.plugins = plugins], l)
                 ELSE [inv   |-> [r EXCEPT !.plugins = plugins, !.pIdx = 1,
                                           !.pc = "existsNative"],
                       local |-> l]

\* line 71, left operand: existsAsync(nativePath) has settled
OnExistsNative(r, l) ==
    LET nativePath == join(pluginDirs[r.dirIdx], <<r.plugins[r.pIdx], "native.ts">>)
    IN  IF existsAsync(nativePath)
        THEN NextPlugin(r, Emit(r, l))
        ELSE [inv |-> [r EXCEPT !.pc = "existsIndexNative"], local |-> l]

OnExistsIndexNativeIgnored(r, l) == NextPlugin(r, l)
\* line 71, right operand: existsAsync(indexNativePath) has settled
OnExistsIndexNative(r, l) ==
    LET indexNativePath ==
            join(pluginDirs[r.dirIdx], <<r.plugins[r.pIdx], "native/index.ts">>)
    IN  IF existsAsync(indexNativePath)
        THEN NextPlugin(r, Emit(r, l))
        ELSE NextPlugin(r, l)

\* the continuation of one invocation at its current await
Resume(r, l) ==
    CASE r.pc = "idle"              -> OnInvoke(r, l)
      [] r.pc = "existsDir"         -> OnExistsDir(r, l)
      [] r.pc = "readdir"           -> OnReaddir(r, l)
      [] r.pc = "existsNative"      -> OnExistsNative(r, l)
      [] r.pc = "existsIndexNative" -> OnExistsIndexNative(r, l)
      [] OTHER                      -> [inv |-> r, local |-> l]

\* whether another invocation is suspended at an await
OthersInFlight(k) ==
    \E o \in Invocations \ {k} : inv[o].pc \notin {"idle", "done", "rejected"}

\* one turn of the event loop runs invocation k to its next await;
\* interleaved records that another invocation was suspended meanwhile
Settle(k, out) ==
    /\ inv' = [inv EXCEPT ![k] =
                 [out.inv EXCEPT !.interleaved = @ \/ OthersInFlight(k)]]
    /\ local' = [local EXCEPT ![Scope(k)] = out.local]

\* line 58: the bundler calls the hook
Invoke(k) ==
    /\ inv[k].pc = "idle"
    /\ Settle(k, OnInvoke(inv[k], local[Scope(k)]))
    /\ UNCHANGED <<fs, nameVars, buildVars>>

ResumeExistsDir(k) ==
    /\ inv[k].pc = "existsDir"
    /\ Settle(k, OnExistsDir(inv[k], local[Scope(k)]))
    /\ UNCHANGED <<fs, nameVars, buildVars>>

ResumeReaddir(k) ==
    /\ inv[k].pc = "readdir"
    /\ Settle(k, OnReaddir(inv[k], local[Scope(k)]))
    /\ UNCHANGED <<fs, nameVars, buildVars>>

ResumeExistsNative(k) ==
    /\ inv[k].pc = "existsNative"
    /\ Settle(k, OnExistsNative(inv[k], local[Scope(k)]))
    /\ UNCHANGED <<fs, nameVars, buildVars>>

ResumeExistsIndexNative(k) ==
    /\ inv[k].pc = "existsIndexNative"
    /\ Settle(k, OnExistsIndexNative(inv[k], local[Scope(k)]))
    /\ UNCHANGED <<fs, nameVars, buildVars>>

LoadStep(k) ==
    \/ Invoke(k)
    \/ ResumeExistsDir(k)
    \/ ResumeReaddir(k)
    \/ ResumeExistsNative(k)
    \/ ResumeExistsIndexNative(k)

-----------------------------------------------------------------------------
(* The source tree the load hook scans *)

RootNames == {"plugins", "userplugins"}

PluginNames == { <<"a">>, <<"b", ".", "d">>, <<"c">>, <<"b", ".", "x">> }
ConcPluginNames == { <<"a">>, <<"x", ".", "a">>, <<"x", ".", "b">> }

\* readdir never lists a name twice
Listings(names, n) ==
    { s \in UNION { [1..m -> names] : m \in 0..n } :
        \A a, b \in 1..Len(s) : a # b => s[a] # s[b] }

InitFs(names, max) ==
    \E R \in SUBSET RootNames :
    \E l1 \in Listings(names, max) :
    \E l2 \in Listings(names, max - Len(l1)) :
        /\ ("plugins" \notin R => l1 = <<>>)
        /\ ("userplugins" \notin R => l2 = <<>>)
        /\ \E F \in SUBSET ( ({"plugins"} \X {l1[n] : n \in 1..Len(l1)} \X NativeFiles)
                             \cup ({"userplugins"} \X {l2[n] : n \in 1..Len(l2)} \X NativeFiles) ) :
              fs = [roots   |-> R,
                    listing |-> [d \in RootNames |-> IF d = "plugins" THEN l1 ELSE l2],
                    files   |-> F]

InitLoadIdle ==
    /\ inv = [k \in Invocations |-> IdleInv]
    /\ local = [k \in Invocations |-> IdleLocal]

-----------------------------------------------------------------------------
(* The display-name derivation applied to one directory name *)

NameChars == {"a", "B", "."}

\* non-empty names; readdir never lists "." or ".."
NameInputs ==
    { s \in UNION { [1..m -> NameChars] : m \in 1..MaxNameLen } :
        s # <<".">> /\ s # <<".", ".">> }

InitNameIdle ==
    /\ dirName = <<"a">>
    /\ displayName = [derived |-> FALSE, name |-> <<>>]

\* lines 74-77 applied to p = dirName
Derive ==
    /\ ~displayName.derived
    /\ displayName' = [derived |-> TRUE, name |-> cleanPluginName(dirName)]
    /\ UNCHANGED <<dirName, loadVars, buildVars>>

-----------------------------------------------------------------------------
(* The six builds, Promise.all, and the post-build patch of dist/renderer.js *)

BuildTasks == {"patcher", "renderer", "preload",
               "vencordDesktopMain", "vencordDesktopRenderer", "vencordDesktopPreload"}

Marker == "// Standalone:"
FileTokens == {"x", Marker}

\* what a build may leave in dist/renderer.js
Bundles == UNION { [1..m -> FileTokens] : m \in 0..MaxFileLen }

Responses == {"networkError", "notJson", "emptyArray", "errorObject",
              "releaseWithoutName", "release"}

\* the name of the first release, "DevBuild " followed by the hash
ReleaseName == <<"D", "e", "v", "B", "u", "i", "l", "d", " ", "1", "f">>

HashPrefixLen == 9

\* line 203: whether fetch(...).then(x => x.json()).then(x => x[0]?.name.slice(9)) rejects
FetchRejects(resp) == resp \in {"networkError", "notJson", "releaseWithoutName"}

\* line 203: the value the chain fulfils with; x[0]?. short-circuits to undefined
LatestHash(resp) ==
    IF resp = "release"
    THEN [undefined |-> FALSE, chars |-> SliceFrom(ReleaseName, HashPrefixLen)]
    ELSE [undefined |-> TRUE, chars |-> <<>>]

\* line 207: the template literal
Banner(hash) ==
    <<"// PAYLOAD\n// Vencord ">>
        \o (IF hash.undefined THEN <<"undefined">> ELSE hash.chars)
        \o <<"\n">>

\* line 207: the text handed to writeFileSync
Patched(contents, hash) ==
    Banner(hash) \o SliceFrom(contents, IndexOf(contents, Marker))

InitBuildIdle ==
    /\ build = [t \in BuildTasks |-> "pending"]
    /\ watch = FALSE
    /\ main = "awaitBuilds"
    /\ exitCode = 0
    /\ exitStatus = 0
    /\ file = [exists |-> FALSE, contents |-> <<>>]
    /\ LATEST_HASH = [undefined |-> TRUE, chars |-> <<>>]
    /\ warned = FALSE

InitBuild ==
    /\ build = [t \in BuildTasks |-> "pending"]
    /\ watch \in BOOLEAN
    /\ main = "awaitBuilds"
    /\ exitCode = 0
    /\ exitStatus = 0
    /\ file \in {[exists |-> FALSE, contents |-> <<>>]}
                  \cup {[exists |-> TRUE, contents |-> c] : c \in Bundles}
    /\ LATEST_HASH = [undefined |-> TRUE, chars |-> <<>>]
    /\ warned = FALSE

\* lines 96-191: one esbuild.build promise fulfils, its outfile written
BuildFulfilled(t) ==
    /\ main # "exited"
    /\ build[t] = "pending"
    /\ build' = [build EXCEPT ![t] = "fulfilled"]
    /\ IF t = "renderer"
       THEN \E c \in Bundles : file' = [exists |-> TRUE, contents |-> c]
       ELSE file' = file
    /\ UNCHANGED <<watch, main, exitCode, exitStatus, LATEST_HASH, warned,
                   loadVars, nameVars>>

\* lines 96-191: one esbuild.build promise rejects
BuildRejected(t) ==
    /\ main # "exited"
    /\ build[t] = "pending"
    /\ build' = [build EXCEPT ![t] = "rejected"]
    /\ UNCHANGED <<watch, main, exitCode, exitStatus, file, LATEST_HASH, warned,
                   loadVars, nameVars>>

\* line 94: Promise.all fulfils once every input has; lines 201-203 start the fetch
AllBuildsFulfilled ==
    /\ main = "awaitBuilds"
    /\ \A t \in BuildTasks : build[t] = "fulfilled"
    /\ main' = "awaitFetch"
    /\ UNCHANGED <<build, watch, exitCode, exitStatus, file, LATEST_HASH, warned,
                   loadVars, nameVars>>

\* lines 192-203: Promise.all rejects with the first rejection; the catch
\* handler runs and lines 201-203 start the fetch
BuildFailedCaught ==
    /\ main = "awaitBuilds"
    /\ \E t \in BuildTasks : build[t] = "rejected"
    /\ exitCode' = IF ~watch THEN 1 ELSE exitCode
    /\ main' = "awaitFetch"
    /\ UNCHANGED <<build, watch, exitStatus, file, LATEST_HASH, warned,
                   loadVars, nameVars>>

\* line 203: the awaited chain rejects outside any try; the module's
\* evaluation fails and node exits with status 1
FetchRejected ==
    /\ main = "awaitFetch"
    /\ \E resp \in Responses : FetchRejects(resp)
    /\ main' = "exited"
    /\ exitStatus' = 1
    /\ UNCHANGED <<build, watch, exitCode, file, LATEST_HASH, warned,
                   loadVars, nameVars>>

\* lines 203-212: the chain fulfils; the try block reads and rewrites the file
FetchFulfilled ==
    /\ main = "awaitFetch"
    /\ \E resp \in Responses, writeThrows \in BOOLEAN :
          /\ ~FetchRejects(resp)
          /\ LATEST_HASH' = LatestHash(resp)
          /\ IF ~file.exists \/ writeThrows
             THEN /\ warned' = TRUE
                  /\ file' = file
             ELSE /\ warned' = warned
                  /\ file' = [exists   |-> TRUE,
                              contents |-> Patched(file.contents, LATEST_HASH')]
    /\ main' = "ended"
    /\ UNCHANGED <<build, watch, exitCode, exitStatus, loadVars, nameVars>>

\* the module has run to its end and nothing is pending: node exits with
\* process.exitCode
ProcessExit ==
    /\ main = "ended"
    /\ \A t \in BuildTasks : build[t] # "pending"
    /\ main' = "exited"
    /\ exitStatus' = exitCode
    /\ UNCHANGED <<build, watch, exitCode, file, LATEST_HASH, warned,
                   loadVars, nameVars>>

-----------------------------------------------------------------------------
(* Specifications *)

\* one load of ~pluginNatives over every source tree within MaxPlugins
InitLoad ==
    /\ InitFs(PluginNames, MaxPlugins)
    /\ InitLoadIdle
    /\ InitNameIdle
    /\ InitBuildIdle

NextLoad == LoadStep(1)

SpecLoad == InitLoad /\ [][NextLoad]_vars

\* the loads of the patcher and vencordDesktopMain builds, interleaved
InitConc ==
    /\ InitFs(ConcPluginNames, MaxConcPlugins)
    /\ InitLoadIdle
    /\ InitNameIdle
    /\ InitBuildIdle

NextConc == \E k \in Invocations : LoadStep(k)

SpecConc == InitConc /\ [][NextConc]_vars

\* the display-name derivation on every name within MaxNameLen
InitName ==
    /\ dirName \in NameInputs
    /\ displayName = [derived |-> FALSE, name |-> <<>>]
    /\ fs = [roots |-> {}, listing |-> [d \in RootNames |-> <<>>], files |-> {}]
    /\ InitLoadIdle
    /\ InitBuildIdle

NextName == Derive

SpecName == InitName /\ [][NextName]_vars

\* the top-level module code: builds, Promise.all, patch, exit
InitOrchestrator ==
    /\ InitBuild
    /\ fs = [roots |-> {}, listing |-> [d \in RootNames |-> <<>>], files |-> {}]
    /\ InitLoadIdle
    /\ InitNameIdle

NextOrchestrator ==
    \/ \E t \in BuildTasks : BuildFulfilled(t)
    \/ \E t \in BuildTasks : BuildRejected(t)
    \/ AllBuildsFulfilled
    \/ BuildFailedCaught
    \/ FetchRejected
    \/ FetchFulfilled
    \/ ProcessExit

SpecOrchestrator == InitOrchestrator /\ [][NextOrchestrator]_vars

-----------------------------------------------------------------------------
(* What the claims speak of *)

Done(k) == inv[k].pc = "done"

\* the import lines and the entries of the export line of a synthesized module
ImportLines(contents) == SelectSeq(contents, LAMBDA ln : ln.kind = "import")
ExportEntries(contents) == contents[Len(contents)].natives

\* the plugin directories of the existing roots, primary root first, each
\* root in listing order
Scanned ==
    LET of(d) == IF d \in fs.roots
                 THEN [n \in 1..Len(fs.listing[d]) |-> <<d, fs.listing[d][n]>>]
                 ELSE <<>>
    IN  of("plugins") \o of("userplugins")

HasNative(dp) == \E f \in NativeFiles : <<dp[1], dp[2], f>> \in fs.files

\* those of them that contain native.ts or native/index.ts
NativeModules == SelectSeq(Scanned, HasNative)

ImportPath(dp) == <<"./", dp[1], "/", dp[2], "/native">>

\* C5: once a load has returned, the keys of the export object are exactly
\* the display names of the scanned plugin directories that contain
\* native.ts or native/index.ts
C5_ExportKeys ==
    \A k \in Invocations : Done(k) =>
        DOMAIN ExportObject(ExportEntries(inv[k].result.contents))
            = { cleanPluginName(NativeModules[n][2]) : n \in 1..Len(NativeModules) }

\* C5: plugins [a, b.d, c] with natives only in a and b.d gave the keys A and B
C5_Witness ==
    /\ Done(1)
    /\ fs.listing["plugins"] = << <<"a">>, <<"b", ".", "d">>, <<"c">> >>
    /\ fs.files = { <<"plugins", <<"a">>, "native.ts">>,
                    <<"plugins", <<"b", ".", "d">>, "native/index.ts">> }
    /\ DOMAIN ExportObject(ExportEntries(inv[1].result.contents)) = { <<"A">>, <<"B">> }

\* C6: once a load has returned, each key of the export object is bound to
\* the alias of exactly one import line, the import of the last scanned
\* native module deriving that display name
C6_LastScannedWins ==
    \A k \in Invocations : Done(k) =>
        LET contents == inv[k].result.contents
            object   == ExportObject(ExportEntries(contents))
            imports  == ImportLines(contents)
        IN  \A key \in DOMAIN object :
              LET same == { n \in 1..Len(NativeModules) :
                              cleanPluginName(NativeModules[n][2]) = key }
                  last == CHOOSE n \in same : \A m \in same : m <= n
                  bound == { n \in 1..Len(imports) : imports[n].mod = object[key] }
              IN  /\ same # {}
                  /\ Cardinality(bound) = 1
                  /\ \A n \in bound : imports[n].from = ImportPath(NativeModules[last])

\* C6: a load returned where b.d of the primary root and b.x of the
\* user-plugins root both have a native module and derive B
C6_Witness ==
    /\ Done(1)
    /\ <<"plugins", <<"b", ".", "d">>, "native.ts">> \in fs.files
    /\ <<"userplugins", <<"b", ".", "x">>, "native.ts">> \in fs.files
    /\ Len(ImportLines(inv[1].result.contents)) >= 2

\* C8: a load never rejects, and once it has returned, each root has
\* contributed, in order, one import line and one export entry per native
\* module of its listing: none when the root does not exist
C8_MissingRootSkipped ==
    \A k \in Invocations :
        /\ inv[k].pc # "rejected"
        /\ Done(k) =>
            LET contents == inv[k].result.contents
                imports  == ImportLines(contents)
                entries  == ExportEntries(contents)
            IN  \A d \in RootNames :
                  LET expected == IF d \in fs.roots
                                  THEN SelectSeq([n \in 1..Len(fs.listing[d]) |->
                                                    <<d, fs.listing[d][n]>>], HasNative)
                                  ELSE <<>>
                      fromRoot == SelectSeq(imports, LAMBDA ln : ln.from[2] = d)
                      aliases  == { fromRoot[n].mod : n \in 1..Len(fromRoot) }
                  IN  /\ [n \in 1..Len(fromRoot) |-> fromRoot[n].from]
                            = [n \in 1..Len(expected) |-> ImportPath(expected[n])]
                      /\ Cardinality({ n \in 1..Len(entries) : entries[n].mod \in aliases })
                            = Len(expected)

\* C8: a load returned where the primary root does not exist and the
\* user-plugins root contributed a native module
C8_Witness ==
    /\ Done(1)
    /\ "plugins" \notin fs.roots
    /\ "userplugins" \in fs.roots
    /\ Len(ImportLines(inv[1].result.contents)) >= 1

\* C9: once a load has returned, its n-th import line binds the alias
\* p(n-1), there are as many export entries as import lines, and the n-th
\* entry uses the alias of the n-th import line
C9_AliasesCountUp ==
    \A k \in Invocations : Done(k) =>
        LET contents == inv[k].result.contents
            imports  == ImportLines(contents)
            entries  == ExportEntries(contents)
        IN  /\ \A n \in 1..Len(imports) : imports[n].mod = <<"p", n - 1>>
            /\ Len(entries) = Len(imports)
            /\ \A n \in 1..Len(entries) :
                  Cardinality({ m \in 1..Len(imports) : imports[m].mod = entries[n].mod }) = 1

\* C9: a load returned with native modules found in both roots
C9_Witness ==
    /\ Done(1)
    /\ \E a, b \in 1..Len(ImportLines(inv[1].result.contents)) :
          /\ a < b
          /\ ImportLines(inv[1].result.contents)[a].from[2] = "plugins"
          /\ ImportLines(inv[1].result.contents)[b].from[2] = "userplugins"

RECURSIVE RunAlone(_, _)
\* the module a load returns when nothing else runs between its awaits
RunAlone(r, l) ==
    IF r.pc \in {"done", "rejected"} THEN r.result
    ELSE LET out == Resume(r, l) IN RunAlone(out.inv, out.local)

\* C10: whatever the interleaving of the two loads, each returns the module
\* it returns when run alone over the same tree
C10_LoadsIndependent ==
    \A k \in Invocations : Done(k) =>
        inv[k].result = RunAlone(IdleInv, IdleLocal)

\* C10: both loads returned, each having taken turns while the other was
\* suspended, over a tree with a native module
C10_Witness ==
    /\ \A k \in Invocations : Done(k) /\ inv[k].interleaved
    /\ Len(ImportLines(inv[1].result.contents)) >= 1

\* the rule as the specification words it: split on ".", capitalize the first
\* character of the whole string, drop the last segment when there is more
\* than one, rejoin with "."
StatedRule(name) ==
    LET capitalized == <<toUpperCase(name[1])>> \o Tail(name)
        segments    == Split(capitalized, ".")
        kept        == IF Len(segments) > 1
                       THEN SubSeq(segments, 1, Len(segments) - 1)
                       ELSE segments
    IN  Join(kept, ".")

\* C7: the display name derived from a non-empty directory name is the
\* result of the stated rule
C7_DisplayNameIsStatedRule ==
    displayName.derived => displayName.name = StatedRule(dirName)

\* C1: once the top-level code is past the await of Promise.all (the fetch
\* of the patch step is issued at once), none of the six builds is pending
C1_PatchAfterAllSettled ==
    main # "awaitBuilds" => \A t \in BuildTasks : build[t] # "pending"

\* C2: the process ends with the exit status the build tasks decided,
\* whatever happened in the post-processing step
C2_PatchNeverChangesExit ==
    main = "exited" => exitStatus = exitCode

\* C3: the exit status is nonzero exactly when a build task failed outside
\* watch mode
C3_ExitStatusIffBuildFailed ==
    main = "exited" =>
        (exitStatus # 0 <=> ((\E t \in BuildTasks : build[t] = "rejected") /\ ~watch))

\* C4: the step that ends the wait for the release metadata leaves
\* dist/renderer.js as it was, or writes the banner with the fetched tag
\* followed by the old content from the first marker on
C4_PatchKeepsFromMarker ==
    [][ (main = "awaitFetch" /\ main' # main) =>
            \/ file' = file
            \/ /\ file.exists
               /\ \E n \in 1..Len(file.contents) :
                     /\ file.contents[n] = Marker
                     /\ \A m \in 1..(n - 1) : file.contents[m] # Marker
                     /\ file' = [exists   |-> TRUE,
                                 contents |-> Banner(LATEST_HASH')
                                                \o SubSeq(file.contents, n, Len(file.contents))]
      ]_vars

=============================================================================
